---------------------------- MODULE Spec2Model ----------------------------
(***************************************************************************)
(* The SEO data-aggregation layer of codejeet (lib/seo/data-aggregator):   *)
(* the process-wide build cache (getBuildCache) and the aggregations that  *)
(* buildAggregatedData derives from the raw question records.              *)
(*                                                                         *)
(* Strings that the code converts (toLowerCase, replace(/\s+/g, "-"),      *)
(* template keys and split(":")) are sequences of one-character strings,   *)
(* so that the conversions are computed and not assumed.  Strings that the *)
(* code only compares (question slugs) are TLA+ strings.  A JavaScript Map *)
(* is a sequence of [key, val] entries in insertion order.                 *)
(***************************************************************************)
EXTENDS Integers, Sequences, FiniteSets, TLC

(***************************************************************************)
(* Bounds of the model.                                                    *)
(***************************************************************************)
\* longest raw record list that the aggregation functions are run on
MaxRecords == 3
\* longest raw record list served by the data source of the cache machine
MaxSourceRecords == 1
\* number of getBuildCache invocations in one run of the cache machine
MaxCalls == 3
\* the largest limit passed to a recommender or to getTopCrossReferences
MaxLimit == 2
\* the longest record list that the accessors are called on
MaxReadRecords == 2
\* the largest number of accessor calls on one cache
MaxReads == 2

(***************************************************************************)
(* JavaScript values.                                                      *)
(***************************************************************************)
\* the value of a property that a record does not have
undefined == "undefined"

\* String.prototype.toLowerCase, on one character
LowerChar(c) ==
  CASE c = "A" -> "a"
    [] c = "B" -> "b"
    [] c = "G" -> "g"
    [] OTHER -> c

\* String.prototype.toLowerCase
toLowerCase(s) == [i \in DOMAIN s |-> LowerChar(s[i])]

\* the characters matched by \s
IsSpace(c) == c = " "

\* s.replace(/\s+/g, "-"): every maximal run of white space becomes one hyphen
RECURSIVE ReplaceSpaces(_)
ReplaceSpaces(s) ==
  IF s = <<>> THEN <<>>
  ELSE IF IsSpace(Head(s))
       THEN IF Len(s) > 1 /\ IsSpace(s[2])
            THEN ReplaceSpaces(Tail(s))
            ELSE <<"-">> \o ReplaceSpaces(Tail(s))
       ELSE <<Head(s)>> \o ReplaceSpaces(Tail(s))

\* name.toLowerCase().replace(/\s+/g, "-")
TopicSlugOf(name) == ReplaceSpaces(toLowerCase(name))

\* s.split(":"): the pieces of s between colons, in order
RECURSIVE Split(_)
Split(s) ==
  IF \A i \in DOMAIN s : s[i] # ":" THEN <<s>>
  ELSE LET i == CHOOSE k \in DOMAIN s :
                  s[k] = ":" /\ \A j \in 1..(k - 1) : s[j] # ":"
       IN <<SubSeq(s, 1, i - 1)>> \o Split(SubSeq(s, i + 1, Len(s)))

(***************************************************************************)
(* Sequence helpers.  Array.prototype.filter is SelectSeq.                 *)
(***************************************************************************)
\* lexicographic order on integer tuples of one length
RECURSIVE KeyLess(_, _)
KeyLess(a, b) ==
  IF a = <<>> THEN FALSE
  ELSE IF Head(a) # Head(b) THEN Head(a) < Head(b)
  ELSE KeyLess(Tail(a), Tail(b))

\* insertion of x into a list sorted by key, after every element whose key
\* is not greater: the sort is stable
RECURSIVE InsertSorted(_, _)
InsertSorted(sorted, x) ==
  IF sorted = <<>> THEN <<x>>
  ELSE IF KeyLess(x.key, Head(sorted).key)
       THEN <<x>> \o sorted
       ELSE <<Head(sorted)>> \o InsertSorted(Tail(sorted), x)

\* Array.prototype.sort(compare), stable (ECMAScript 2019), for a compare
\* that orders by a tuple of numbers: keyed is the list of
\* [key |-> the tuple, item |-> the element]; the result lists the elements
RECURSIVE SortKeyed(_)
SortKeyed(keyed) ==
  IF keyed = <<>> THEN <<>>
  ELSE InsertSorted(SortKeyed(SubSeq(keyed, 1, Len(keyed) - 1)),
                    keyed[Len(keyed)])

StableSort(keyed) == LET s == SortKeyed(keyed) IN [i \in DOMAIN s |-> s[i].item]

(***************************************************************************)
(* Map helpers.                                                            *)
(***************************************************************************)
MapKeys(m) == {m[i].key : i \in DOMAIN m}
MapHas(m, k) == k \in MapKeys(m)
\* Map.prototype.get, for a key that the map has
MapGet(m, k) == m[CHOOSE i \in DOMAIN m : m[i].key = k].val
\* Map.prototype.set: a present key keeps its place
MapSet(m, k, v) ==
  IF MapHas(m, k)
  THEN [i \in DOMAIN m |-> IF m[i].key = k THEN [key |-> k, val |-> v] ELSE m[i]]
  ELSE Append(m, [key |-> k, val |-> v])

\* Array.from(map.values())
MapValues(m) == [i \in DOMAIN m |-> m[i].val]

(***************************************************************************)
(* The raw data (lib/data, outside this layer): the records that           *)
(* getQuestions resolves with, and the lists of getCompanies and           *)
(* getTopics.  One record per (question, company) pairing.                 *)
(***************************************************************************)
\* company slugs: google and amazon (tier 1), uber (tier 2), an unlisted one
google == <<"g">>
amazon == <<"a">>
uber == <<"u">>
acme == <<"x">>

\* topic names: "A" and "B" are capitalised names, "a" is "A" in another
\* case, "A B" has white space, "a-b" is already the slug of "A B"
TopicA == <<"A">>
TopicALower == <<"a">>
TopicB == <<"B">>
TopicAB == <<"A", " ", "B">>
TopicABSlug == <<"a", "-", "b">>

\* the sheet of google describes a question in other words than the sheets
\* of the other companies: records of one slug disagree on these fields
Sheet(company) ==
  IF company = google
  THEN [id |-> 1, title |-> "Title", acceptance_rate |-> 50, IsPremium |-> "Y", link |-> "/problems/1"]
  ELSE [id |-> 2, title |-> "title", acceptance_rate |-> 40, IsPremium |-> "N", link |-> "/problems/2"]

Rec(slug, company, difficulty, topics, frequency) ==
  [slug |-> slug, company |-> company, difficulty |-> difficulty,
   topics |-> topics, frequency |-> frequency,
   id |-> Sheet(company).id, title |-> Sheet(company).title,
   acceptance_rate |-> Sheet(company).acceptance_rate,
   IsPremium |-> Sheet(company).IsPremium, link |-> Sheet(company).link]

\* the records a raw list is made of.  A difficulty of "Unknown" is a value
\* outside Easy/Medium/Hard; a difficulty of undefined is a missing field.
RawRecords ==
  {Rec(s, google, "Easy", <<TopicA>>, f) : s \in {"two-sum", "lru-cache"}, f \in {40, 80}}
  \cup {Rec(s, acme, "Easy", <<TopicA>>, 40) : s \in {"two-sum", "lru-cache"}}
  \cup {Rec("two-sum", amazon, d, <<TopicA, TopicB>>, 40) :
          d \in {"Medium", "Hard", "Unknown", undefined}}
  \cup {Rec("lru-cache", uber, "Hard", t, 80) :
          t \in {<<>>, <<TopicALower>>, <<TopicA, TopicALower>>, <<TopicAB>>,
                  <<TopicAB, TopicABSlug>>}}

\* the lists of at most n elements of S
RECURSIVE SeqsUpTo(_, _)
SeqsUpTo(S, n) ==
  IF n = 0 THEN {<<>>}
  ELSE LET shorter == SeqsUpTo(S, n - 1)
       IN shorter \cup {Append(q, r) : q \in {x \in shorter : Len(x) = n - 1}, r \in S}

\* getCompanies(): the company directory, in its order
CompanyList == <<acme, uber, amazon, google>>
\* getTopics(): the canonical topic names
TopicList == <<TopicA, TopicB, TopicAB>>

(***************************************************************************)
(* config: company tiers.                                                  *)
(***************************************************************************)
companyTiers(slug) ==
  CASE slug = google -> 1
    [] slug = amazon -> 1
    [] slug = uber -> 2
    [] OTHER -> 0

\* companyTiers[slug.toLowerCase()] || 3
getCompanyTier(slug) ==
  LET tier == companyTiers(toLowerCase(slug)) IN IF tier # 0 THEN tier ELSE 3

(***************************************************************************)
(* Helper functions of the aggregator.                                     *)
(***************************************************************************)
\* q.difficulty.toLowerCase(), for a difficulty that is a string
LowerDifficulty(d) ==
  CASE d = "Easy" -> "easy"
    [] d = "Medium" -> "medium"
    [] d = "Hard" -> "hard"
    [] d = "Unknown" -> "unknown"
    [] OTHER -> d

\* breakdown[difficulty]++ on the object { easy, medium, hard }: a property
\* that the object does not have becomes NaN (undefined++), and nan is the
\* set of those properties
IncrementBreakdown(breakdown, difficulty) ==
  CASE difficulty = "easy" -> [breakdown EXCEPT !.easy = @ + 1]
    [] difficulty = "medium" -> [breakdown EXCEPT !.medium = @ + 1]
    [] difficulty = "hard" -> [breakdown EXCEPT !.hard = @ + 1]
    [] OTHER -> [breakdown EXCEPT !.nan = @ \cup {difficulty}]

RECURSIVE BreakdownLoop(_, _)
BreakdownLoop(questions, breakdown) ==
  IF questions = <<>> THEN breakdown
  ELSE BreakdownLoop(Tail(questions),
         IncrementBreakdown(breakdown, LowerDifficulty(Head(questions).difficulty)))

calculateDifficultyBreakdown(questions) ==
  BreakdownLoop(questions, [easy |-> 0, medium |-> 0, hard |-> 0, nan |-> {}])

\* q.difficulty.toLowerCase() throws a TypeError when q.difficulty is missing
BreakdownThrows(questions) ==
  \E i \in DOMAIN questions : questions[i].difficulty = undefined

(***************************************************************************)
(* Counting helpers of the aggregation.                                    *)
(***************************************************************************)
\* const count = counts.get(k) || 0; counts.set(k, count + 1)
Increment(counts, k) ==
  MapSet(counts, k, (IF MapHas(counts, k) THEN MapGet(counts, k) ELSE 0) + 1)

RECURSIVE IncrementAll(_, _)
IncrementAll(counts, ks) ==
  IF ks = <<>> THEN counts ELSE IncrementAll(Increment(counts, Head(ks)), Tail(ks))

\* Array.from(counts.entries()).sort((a, b) => b[1] - a[1])
SortByCount(entries) ==
  StableSort([i \in DOMAIN entries |-> [key |-> <<0 - entries[i].val>>, item |-> entries[i]]])

\* slice(0, limit), limit a natural number
Slice(seq, limit) == SubSeq(seq, 1, IF limit < Len(seq) THEN limit ELSE Len(seq))

\* the loop of calculateTopTopics: one count per topic string of a record
RECURSIVE TopicCountsLoop(_, _)
TopicCountsLoop(questions, topicCounts) ==
  IF questions = <<>> THEN topicCounts
  ELSE TopicCountsLoop(Tail(questions), IncrementAll(topicCounts, Head(questions).topics))

calculateTopTopics(questions, limit) ==
  LET top == Slice(SortByCount(TopicCountsLoop(questions, <<>>)), limit)
  IN [i \in DOMAIN top |->
       [slug |-> TopicSlugOf(top[i].key), name |-> top[i].key, count |-> top[i].val]]

(***************************************************************************)
(* Company aggregation.                                                    *)
(***************************************************************************)
\* the Company of one slug of the company list, from its records
CompanyEntry(companySlug, companyQuestions) ==
  [slug |-> companySlug,
   questionCount |-> Len(companyQuestions),
   uniqueQuestionCount |->
     Cardinality({companyQuestions[i].slug : i \in DOMAIN companyQuestions}),
   difficultyBreakdown |-> calculateDifficultyBreakdown(companyQuestions),
   topTopics |-> calculateTopTopics(companyQuestions, 10)]

\* the loop over companyList: companies with no record are skipped
RECURSIVE CompaniesLoop(_, _, _)
CompaniesLoop(questions, companyList, companies) ==
  IF companyList = <<>> THEN companies
  ELSE LET companySlug == Head(companyList)
           companyQuestions == SelectSeq(questions, LAMBDA q : q.company = companySlug)
       IN CompaniesLoop(questions, Tail(companyList),
            IF Len(companyQuestions) = 0 THEN companies
            ELSE MapSet(companies, companySlug,
                        CompanyEntry(companySlug, companyQuestions)))

\* the companies in the order of companyList, the sort of lines 133-137 left out
aggregateCompaniesUnsorted(questions, companyList) ==
  CompaniesLoop(questions, companyList, <<>>)

\* sorted by tier, then by question count descending
aggregateCompanies(questions, companyList) ==
  LET companies == CompaniesLoop(questions, companyList, <<>>)
  IN StableSort([i \in DOMAIN companies |->
       [key |-> <<getCompanyTier(companies[i].key), 0 - companies[i].val.questionCount>>,
        item |-> companies[i]]])

aggregateCompaniesThrows(questions, companyList) ==
  \E i \in DOMAIN companyList :
    BreakdownThrows(SelectSeq(questions, LAMBDA q : q.company = companyList[i]))

(***************************************************************************)
(* Topic aggregation.                                                      *)
(***************************************************************************)
\* questions.filter((q) => q.topics.some((t) => t.toLowerCase() === topicName.toLowerCase()))
TopicQuestions(questions, topicName) ==
  SelectSeq(questions, LAMBDA q :
    \E i \in DOMAIN q.topics : toLowerCase(q.topics[i]) = toLowerCase(topicName))

\* the loop of calculateRelatedTopics: in the records that have the target,
\* one count per topic string whose lowercase differs from the target's
RECURSIVE CooccurrenceLoop(_, _, _)
CooccurrenceLoop(questions, targetLower, cooccurrence) ==
  IF questions = <<>> THEN cooccurrence
  ELSE LET q == Head(questions)
           hasTarget == \E i \in DOMAIN q.topics : toLowerCase(q.topics[i]) = targetLower
       IN CooccurrenceLoop(Tail(questions), targetLower,
            IF hasTarget
            THEN IncrementAll(cooccurrence,
                   SelectSeq(q.topics, LAMBDA t : toLowerCase(t) # targetLower))
            ELSE cooccurrence)

\* the topic strings are turned into slugs after the counting
calculateRelatedTopics(questions, targetTopic, limit) ==
  LET top == Slice(SortByCount(CooccurrenceLoop(questions, toLowerCase(targetTopic), <<>>)),
                   limit)
  IN [i \in DOMAIN top |-> TopicSlugOf(top[i].key)]

\* the Topic of one name of the topic list, from its records
TopicEntry(questions, topicName, topicQuestions) ==
  [slug |-> TopicSlugOf(topicName),
   name |-> topicName,
   questionCount |-> Len(topicQuestions),
   difficultyBreakdown |-> calculateDifficultyBreakdown(topicQuestions),
   relatedTopics |-> calculateRelatedTopics(questions, topicName, 5)]

\* the loop over topicList with the key computed without the replace
RECURSIVE TopicsLoopRawKey(_, _, _)
TopicsLoopRawKey(questions, topicList, topics) ==
  IF topicList = <<>> THEN topics
  ELSE LET topicName == Head(topicList)
           topicQuestions == TopicQuestions(questions, topicName)
       IN TopicsLoopRawKey(questions, Tail(topicList),
            IF Len(topicQuestions) = 0 THEN topics
            ELSE MapSet(topics, toLowerCase(topicName),
                        TopicEntry(questions, topicName, topicQuestions)))

\* the loop over topicList: topics with no record are skipped
RECURSIVE TopicsLoop(_, _, _)
TopicsLoop(questions, topicList, topics) ==
  IF topicList = <<>> THEN topics
  ELSE LET topicName == Head(topicList)
           topicQuestions == TopicQuestions(questions, topicName)
       IN TopicsLoop(questions, Tail(topicList),
            IF Len(topicQuestions) = 0 THEN topics
            ELSE MapSet(topics, TopicSlugOf(topicName),
                        TopicEntry(questions, topicName, topicQuestions)))

\* sorted by question count descending
aggregateTopics(questions, topicList) ==
  LET topics == TopicsLoop(questions, topicList, <<>>)
  IN StableSort([i \in DOMAIN topics |->
       [key |-> <<0 - topics[i].val.questionCount>>, item |-> topics[i]]])

aggregateTopicsThrows(questions, topicList) ==
  \E i \in DOMAIN topicList : BreakdownThrows(TopicQuestions(questions, topicList[i]))

(***************************************************************************)
(* Question deduplication.                                                 *)
(***************************************************************************)
\* first pass: slug -> the company-frequency pairs of its records
RECURSIVE GroupCompanies(_, _)
GroupCompanies(questions, questionCompanies) ==
  IF questions = <<>> THEN questionCompanies
  ELSE LET q == Head(questions)
           had == IF MapHas(questionCompanies, q.slug)
                  THEN MapGet(questionCompanies, q.slug) ELSE <<>>
       IN GroupCompanies(Tail(questions),
            MapSet(questionCompanies, q.slug,
                   Append(had, [company |-> q.company, frequency |-> q.frequency])))

\* the sort with its comparator reversed: (a, b) => a.frequency - b.frequency
SortByFrequencyAscending(list) ==
  StableSort([i \in DOMAIN list |-> [key |-> <<list[i].frequency>>, item |-> list[i]]])

\* companies.sort((a, b) => b.frequency - a.frequency)
SortByFrequency(list) ==
  StableSort([i \in DOMAIN list |-> [key |-> <<0 - list[i].frequency>>, item |-> list[i]]])

\* the score that findRelatedQuestions gives the record q for the target
RelatedScore(q, target) ==
  (IF q.difficulty = target.difficulty THEN 1 ELSE 0)
  + 2 * Len(SelectSeq(q.topics, LAMBDA t :
            \E j \in DOMAIN target.topics : toLowerCase(target.topics[j]) = toLowerCase(t)))

\* the loop of findRelatedQuestions: scores.set(q.slug, score), so that a
\* later record of a slug replaces the score of an earlier one
RECURSIVE ScoresLoop(_, _, _)
ScoresLoop(questions, target, scores) ==
  IF questions = <<>> THEN scores
  ELSE LET q == Head(questions)
       IN ScoresLoop(Tail(questions), target,
            IF q.slug # target.slug /\ RelatedScore(q, target) > 0
            THEN MapSet(scores, q.slug, RelatedScore(q, target))
            ELSE scores)

findRelatedQuestions(questions, target, limit) ==
  LET top == Slice(SortByCount(ScoresLoop(questions, target, <<>>)), limit)
  IN [i \in DOMAIN top |-> top[i].key]

\* the UniqueQuestion that the second pass makes of the record q
UniqueQuestionOf(q, companies, relatedSlugs) ==
  [id |-> q.id,
   slug |-> q.slug,
   title |-> q.title,
   difficulty |-> q.difficulty,
   topics |-> q.topics,
   acceptanceRate |-> q.acceptance_rate,
   companies |-> companies,
   isPremium |-> (q.IsPremium = "Y"),
   leetcodeUrl |-> q.link,
   relatedQuestions |-> relatedSlugs]

\* the second pass without its `continue`: a later record of a slug
\* replaces the entry of an earlier one
RECURSIVE UniqueLoopLastRecord(_, _, _, _)
UniqueLoopLastRecord(all, questions, questionCompanies, uniqueQuestions) ==
  IF questions = <<>> THEN uniqueQuestions
  ELSE LET q == Head(questions)
       IN UniqueLoopLastRecord(all, Tail(questions), questionCompanies,
            MapSet(uniqueQuestions, q.slug,
                   UniqueQuestionOf(q, SortByFrequency(MapGet(questionCompanies, q.slug)),
                                    findRelatedQuestions(all, q, 5))))

\* the second pass with its `continue` test made on the wrong map
\* (questionCompanies, which has every slug): no record is ever emitted
RECURSIVE UniqueLoopWrongMap(_, _, _, _)
UniqueLoopWrongMap(all, questions, questionCompanies, uniqueQuestions) ==
  IF questions = <<>> THEN uniqueQuestions
  ELSE LET q == Head(questions)
       IN UniqueLoopWrongMap(all, Tail(questions), questionCompanies,
            IF MapHas(questionCompanies, q.slug) THEN uniqueQuestions
            ELSE MapSet(uniqueQuestions, q.slug,
                   UniqueQuestionOf(q, SortByFrequency(MapGet(questionCompanies, q.slug)),
                                    findRelatedQuestions(all, q, 5))))

\* second pass: one UniqueQuestion per slug, from its first record; all is
\* the whole record list, which findRelatedQuestions reads
RECURSIVE UniqueLoop(_, _, _, _)
UniqueLoop(all, questions, questionCompanies, uniqueQuestions) ==
  IF questions = <<>> THEN uniqueQuestions
  ELSE LET q == Head(questions)
       IN UniqueLoop(all, Tail(questions), questionCompanies,
            IF MapHas(uniqueQuestions, q.slug) THEN uniqueQuestions
            ELSE MapSet(uniqueQuestions, q.slug,
                   UniqueQuestionOf(q, SortByFrequency(MapGet(questionCompanies, q.slug)),
                                    findRelatedQuestions(all, q, 5))))

\* sorted by the number of companies asking
deduplicateQuestions(questions) ==
  LET uniqueQuestions == UniqueLoop(questions, questions, GroupCompanies(questions, <<>>), <<>>)
  IN StableSort([i \in DOMAIN uniqueQuestions |->
       [key |-> <<0 - Len(uniqueQuestions[i].val.companies)>>,
        item |-> uniqueQuestions[i]]])

(***************************************************************************)
(* Cross-reference index.                                                  *)
(***************************************************************************)
\* `${q.company}:${topic.toLowerCase()}`
CrossRefKey(company, topic) == company \o <<":">> \o toLowerCase(topic)

\* the inner loop: q is pushed to the bucket of each entry of q.topics
RECURSIVE BucketTopics(_, _, _)
BucketTopics(q, topics, crossRefMap) ==
  IF topics = <<>> THEN crossRefMap
  ELSE LET key == CrossRefKey(q.company, Head(topics))
           had == IF MapHas(crossRefMap, key) THEN MapGet(crossRefMap, key) ELSE <<>>
       IN BucketTopics(q, Tail(topics), MapSet(crossRefMap, key, Append(had, q)))

RECURSIVE BucketQuestions(_, _)
BucketQuestions(questions, crossRefMap) ==
  IF questions = <<>> THEN crossRefMap
  ELSE BucketQuestions(Tail(questions),
         BucketTopics(Head(questions), Head(questions).topics, crossRefMap))

\* qs[0].topics.find((t) => t.toLowerCase() === topicLower) || topicLower
FindTopicName(topics, topicLower) ==
  LET found == SelectSeq(topics, LAMBDA t : toLowerCase(t) = topicLower)
  IN IF found # <<>> /\ Head(found) # <<>> THEN Head(found) ELSE topicLower

\* the CompanyTopicCrossRef of one bucket
CrossRefOf(key, qs) ==
  LET parts == Split(key)
      companySlug == parts[1]
      topicLower == parts[2]
  IN [companySlug |-> companySlug,
      topicSlug |-> ReplaceSpaces(topicLower),
      topicName |-> FindTopicName(qs[1].topics, topicLower),
      questionCount |-> Len(qs),
      difficultyBreakdown |-> calculateDifficultyBreakdown(qs)]

\* refs.sort((a, b) => b.questionCount - a.questionCount)
SortByQuestionCount(refs) ==
  StableSort([i \in DOMAIN refs |-> [key |-> <<0 - refs[i].questionCount>>, item |-> refs[i]]])

\* the loop over the buckets, filling one view: ByCompany chooses the
\* company -> topics view, otherwise the topic -> companies view
RECURSIVE CrossRefView(_, _, _)
CrossRefView(crossRefMap, ByCompany, view) ==
  IF crossRefMap = <<>> THEN view
  ELSE LET crossRef == CrossRefOf(Head(crossRefMap).key, Head(crossRefMap).val)
           k == IF ByCompany THEN crossRef.companySlug ELSE crossRef.topicSlug
           had == IF MapHas(view, k) THEN MapGet(view, k) ELSE <<>>
       IN CrossRefView(Tail(crossRefMap), ByCompany, MapSet(view, k, Append(had, crossRef)))

\* the lists of a view left in the order of the buckets
ViewInBucketOrder(view) == view

SortView(view) ==
  [i \in DOMAIN view |-> [key |-> view[i].key, val |-> SortByQuestionCount(view[i].val)]]

\* question slug -> the distinct companies of its records, in first-seen order
RECURSIVE QuestionCompaniesLoop(_, _)
QuestionCompaniesLoop(questions, questionCompanies) ==
  IF questions = <<>> THEN questionCompanies
  ELSE LET q == Head(questions)
           companies == IF MapHas(questionCompanies, q.slug)
                        THEN MapGet(questionCompanies, q.slug) ELSE <<>>
       IN QuestionCompaniesLoop(Tail(questions),
            MapSet(questionCompanies, q.slug,
                   IF \E i \in DOMAIN companies : companies[i] = q.company
                   THEN companies ELSE Append(companies, q.company)))

\* question slug -> the topics of its first record
RECURSIVE QuestionTopicsLoop(_, _)
QuestionTopicsLoop(questions, questionTopics) ==
  IF questions = <<>> THEN questionTopics
  ELSE LET q == Head(questions)
       IN QuestionTopicsLoop(Tail(questions),
            IF MapHas(questionTopics, q.slug) THEN questionTopics
            ELSE MapSet(questionTopics, q.slug, q.topics))

buildCrossReferenceIndex(questions) ==
  LET crossRefMap == BucketQuestions(questions, <<>>)
  IN [companyTopics |-> SortView(CrossRefView(crossRefMap, TRUE, <<>>)),
      topicCompanies |-> SortView(CrossRefView(crossRefMap, FALSE, <<>>)),
      questionCompanies |-> QuestionCompaniesLoop(questions, <<>>),
      questionTopics |-> QuestionTopicsLoop(questions, <<>>)]

buildCrossReferenceIndexThrows(questions) ==
  LET crossRefMap == BucketQuestions(questions, <<>>)
  IN \E i \in DOMAIN crossRefMap : BreakdownThrows(crossRefMap[i].val)

(***************************************************************************)
(* The question indexes by company and by topic.                           *)
(***************************************************************************)
\* the QuestionWithCompanyContext pushed for a record
Context(q) ==
  [slug |-> q.slug, difficulty |-> q.difficulty, topics |-> q.topics,
   frequency |-> q.frequency]

\* if (!index.has(k)) index.set(k, []); index.get(k).push(x)
Push(index, k, x) ==
  MapSet(index, k, Append(IF MapHas(index, k) THEN MapGet(index, k) ELSE <<>>, x))

RECURSIVE CompanyIndexLoop(_, _)
CompanyIndexLoop(questions, index) ==
  IF questions = <<>> THEN index
  ELSE CompanyIndexLoop(Tail(questions),
         Push(index, Head(questions).company, Context(Head(questions))))

\* each company's questions are sorted by frequency descending
buildCompanyQuestionsIndex(questions) ==
  LET index == CompanyIndexLoop(questions, <<>>)
  IN [i \in DOMAIN index |-> [key |-> index[i].key, val |-> SortByFrequency(index[i].val)]]

\* the inner loop: q is pushed under the slug of each entry of q.topics
RECURSIVE TopicIndexTopics(_, _, _)
TopicIndexTopics(q, topics, index) ==
  IF topics = <<>> THEN index
  ELSE TopicIndexTopics(q, Tail(topics), Push(index, TopicSlugOf(Head(topics)), Context(q)))

RECURSIVE TopicIndexLoop(_, _)
TopicIndexLoop(questions, index) ==
  IF questions = <<>> THEN index
  ELSE TopicIndexLoop(Tail(questions),
         TopicIndexTopics(Head(questions), Head(questions).topics, index))

\* the dedupe with a later entry of a slug replacing the one kept
RECURSIVE DedupedKeepLast(_, _)
DedupedKeepLast(qs, deduped) ==
  IF qs = <<>> THEN deduped
  ELSE DedupedKeepLast(Tail(qs),
         IF \E i \in DOMAIN deduped : deduped[i].slug = Head(qs).slug
         THEN [i \in DOMAIN deduped |->
                 IF deduped[i].slug = Head(qs).slug THEN Head(qs) ELSE deduped[i]]
         ELSE Append(deduped, Head(qs)))

\* the first entry of each slug is kept
RECURSIVE Deduped(_, _)
Deduped(qs, deduped) ==
  IF qs = <<>> THEN deduped
  ELSE Deduped(Tail(qs),
         IF \E i \in DOMAIN deduped : deduped[i].slug = Head(qs).slug
         THEN deduped ELSE Append(deduped, Head(qs)))

\* each topic's questions are sorted by frequency descending, then deduplicated
buildTopicQuestionsIndex(questions) ==
  LET index == TopicIndexLoop(questions, <<>>)
  IN [i \in DOMAIN index |->
       [key |-> index[i].key, val |-> Deduped(SortByFrequency(index[i].val), <<>>)]]

(***************************************************************************)
(* buildAggregatedData, after the three loaders have resolved: the         *)
(* synchronous part that computes the snapshot.                            *)
(***************************************************************************)
\* whether the aggregation throws (a TypeError), which rejects the build
AggregationThrows(rawQuestions, companyList, topicList) ==
  \/ aggregateCompaniesThrows(rawQuestions, companyList)
  \/ aggregateTopicsThrows(rawQuestions, topicList)
  \/ buildCrossReferenceIndexThrows(rawQuestions)

\* the BuildCache object that the build returns
AggregatedData(rawQuestions, companyList, topicList) ==
  LET companies == aggregateCompanies(rawQuestions, companyList)
      topics == aggregateTopics(rawQuestions, topicList)
      questions == deduplicateQuestions(rawQuestions)
      crossRefs == buildCrossReferenceIndex(rawQuestions)
  IN [companies |-> companies,
      topics |-> topics,
      questions |-> questions,
      crossRefs |-> crossRefs,
      companyQuestions |-> buildCompanyQuestionsIndex(rawQuestions),
      topicQuestions |-> buildTopicQuestionsIndex(rawQuestions),
      stats |-> [totalCompanies |-> Len(companies),
                 totalTopics |-> Len(topics),
                 totalUniqueQuestions |-> Len(questions),
                 totalQuestionRecords |-> Len(rawQuestions)]]

(***************************************************************************)
(* The read accessors, as functions of the resolved cache.  A returned     *)
(* value is a record: kind "null", kind "value" with the value, kind       *)
(* "list" with the items, kind "undefined", or kind "threw".               *)
(***************************************************************************)
\* map.get(slug) || null
GetOrNull(m, slug) ==
  IF MapHas(m, slug) THEN [kind |-> "value", value |-> MapGet(m, slug)]
  ELSE [kind |-> "null"]

\* map.get(slug) without the `|| []`
GetOrUndefined(m, slug) ==
  IF MapHas(m, slug) THEN [kind |-> "list", items |-> MapGet(m, slug)]
  ELSE [kind |-> "undefined"]

\* map.get(slug) || []
GetOrEmpty(m, slug) ==
  IF MapHas(m, slug) THEN [kind |-> "list", items |-> MapGet(m, slug)]
  ELSE [kind |-> "list", items |-> <<>>]

\* for (const list of lists) all.push(...list)
RECURSIVE Flatten(_)
Flatten(lists) == IF lists = <<>> THEN <<>> ELSE Head(lists) \o Flatten(Tail(lists))

getAggregatedCompanies(cache) == [kind |-> "value", value |-> cache.companies]
getAggregatedTopics(cache) == [kind |-> "value", value |-> cache.topics]
getStats(cache) == [kind |-> "value", value |-> cache.stats]

getCompanyBySlug(cache, slug) == GetOrNull(cache.companies, slug)
getTopicBySlug(cache, slug) == GetOrNull(cache.topics, slug)
getQuestionBySlug(cache, slug) == GetOrNull(cache.questions, slug)

getQuestionsByCompany(cache, companySlug) == GetOrEmpty(cache.companyQuestions, companySlug)
getQuestionsByTopic(cache, topicSlug) == GetOrEmpty(cache.topicQuestions, topicSlug)

\* filter is called on what the lookup gave: on undefined it throws
getQuestionsByCompanyAndTopic(cache, companySlug, topicSlug) ==
  LET companyQuestions == GetOrEmpty(cache.companyQuestions, companySlug)
  IN IF companyQuestions.kind # "list" THEN [kind |-> "threw"]
     ELSE [kind |-> "list",
           items |-> SelectSeq(companyQuestions.items, LAMBDA q :
                       \E i \in DOMAIN q.topics : TopicSlugOf(q.topics[i]) = topicSlug)]

getCompanyTopicCrossRefs(cache, companySlug) ==
  GetOrEmpty(cache.crossRefs.companyTopics, companySlug)
getTopicCompanyCrossRefs(cache, topicSlug) ==
  GetOrEmpty(cache.crossRefs.topicCompanies, topicSlug)
getQuestionCompanies(cache, questionSlug) ==
  GetOrEmpty(cache.crossRefs.questionCompanies, questionSlug)

\* line 614 with the test left out
EnoughQuestionsAlways(ref) == TRUE

\* line 614: ref.questionCount >= 3
EnoughQuestions(ref) == ref.questionCount >= 3

\* every cross-reference of the company view that passes the test of line
\* 614, sorted by tier then by question count descending, cut at limit
getTopCrossReferences(cache, limit) ==
  LET allCrossRefs == Flatten(MapValues(cache.crossRefs.companyTopics))
      kept == SelectSeq(allCrossRefs, LAMBDA ref : EnoughQuestions(ref))
      sorted == StableSort([i \in DOMAIN kept |->
                  [key |-> <<getCompanyTier(kept[i].companySlug), 0 - kept[i].questionCount>>,
                   item |-> kept[i]]])
  IN [kind |-> "list", items |-> Slice(sorted, limit)]

\* the first entry of each slug among those of the difficulty, over the
\* company lists in map order, then sorted by frequency descending
getQuestionsByDifficulty(cache, difficulty) ==
  LET matching == SelectSeq(Flatten(MapValues(cache.companyQuestions)),
                            LAMBDA q : q.difficulty = difficulty)
  IN [kind |-> "list", items |-> SortByFrequency(Deduped(matching, <<>>))]

\* seoConfig.thinContentThresholds.companyTopic
companyTopicThreshold == 3

\* the cross-reference entries of the sitemap: getTopCrossReferences(1000),
\* then the test against the configured threshold
sitemapCrossRefEntries(cache) ==
  SelectSeq(getTopCrossReferences(cache, 1000).items,
            LAMBDA crossRef : crossRef.questionCount >= companyTopicThreshold)

\* the company+topic pages built ahead: the top 500 cross-references that
\* meet the threshold
generateStaticParams(cache) ==
  LET crossRefs == SelectSeq(getTopCrossReferences(cache, 500).items,
                             LAMBDA ref : ref.questionCount >= companyTopicThreshold)
  IN [i \in DOMAIN crossRefs |->
        [company |-> crossRefs[i].companySlug, topic |-> crossRefs[i].topicSlug]]

\* the thin content test of CompanyTopicPage: the page redirects or is not found
CompanyTopicPageIsThin(cache, companySlug, topicSlug) ==
  \/ getCompanyBySlug(cache, companySlug).kind = "null"
  \/ getTopicBySlug(cache, topicSlug).kind = "null"
  \/ Len(getQuestionsByCompanyAndTopic(cache, companySlug, topicSlug).items)
       < companyTopicThreshold

\* the accessors with the sort of line 640 applied, ascending, to the
\* arrays of cache.companyQuestions themselves
CacheAfterReadSortedInPlace(cache) ==
  [cache EXCEPT !.companyQuestions =
     [i \in DOMAIN @ |->
        [key |-> @[i].key,
         val |-> StableSort([j \in DOMAIN @[i].val |->
                   [key |-> <<@[i].val[j].frequency>>, item |-> @[i].val[j]]])]]]

\* the cache after an accessor has returned: no accessor assigns to an
\* object of the cache, and the two sorts (lines 615 and 640) have as
\* receiver an array that the accessor itself created
CacheAfterRead(cache) == cache

(***************************************************************************)
(* Internal linking: the three recommenders.  An InternalLink is modelled  *)
(* by its href and its priority, the priority in tenths (1 is 10, 0.8 is   *)
(* 8, 0.7 is 7).                                                           *)
(***************************************************************************)
\* the pattern of the page type with {slug} replaced: the prefix and the slug
getCanonicalUrl(pageType, slug) ==
  [prefix |-> CASE pageType = "company" -> "/company/"
                [] pageType = "topic" -> "/topic/"
                [] pageType = "problem" -> "/problem/",
   slug |-> slug]

\* Math.abs
Abs(n) == IF n < 0 THEN 0 - n ELSE n

\* Math.min
Min(a, b) == IF a < b THEN a ELSE b

\* new Set(list), in insertion order
RECURSIVE UniqueValues(_, _)
UniqueValues(list, seen) ==
  IF list = <<>> THEN seen
  ELSE UniqueValues(Tail(list),
         IF \E i \in DOMAIN seen : seen[i] = Head(list) THEN seen
         ELSE Append(seen, Head(list)))

\* sort((a, b) => b.score - a.score) of the candidates with their scores
SortByScore(scored) ==
  StableSort([i \in DOMAIN scored |-> [key |-> <<0 - scored[i].score>>, item |-> scored[i]]])

\* the score with the bonus of line 50 left out
CompanyScoreNoNearSize(currentCompany, company) ==
  LET currentTier == getCompanyTier(currentCompany.slug)
      companyTier == getCompanyTier(company.slug)
      topicOverlap == Len(SelectSeq(company.topTopics, LAMBDA t :
                        \E i \in DOMAIN currentCompany.topTopics :
                          currentCompany.topTopics[i].slug = t.slug))
      sizeDiff == Abs(company.questionCount - currentCompany.questionCount)
  IN topicOverlap * 10
     + (IF companyTier = currentTier THEN 5 ELSE 0)
     + (IF companyTier < currentTier THEN 3 ELSE 0)
     + (IF sizeDiff < 50 THEN 3 ELSE 0)

\* lines 36-50: the score of one candidate company
CompanyScore(currentCompany, company) ==
  LET currentTier == getCompanyTier(currentCompany.slug)
      companyTier == getCompanyTier(company.slug)
      topicOverlap == Len(SelectSeq(company.topTopics, LAMBDA t :
                        \E i \in DOMAIN currentCompany.topTopics :
                          currentCompany.topTopics[i].slug = t.slug))
      sizeDiff == Abs(company.questionCount - currentCompany.questionCount)
  IN topicOverlap * 10
     + (IF companyTier = currentTier THEN 5 ELSE 0)
     + (IF companyTier < currentTier THEN 3 ELSE 0)
     + (IF sizeDiff < 50 THEN 3 ELSE 0)
     + (IF sizeDiff < 100 THEN 1 ELSE 0)

getRelatedCompanies(currentCompany, allCompanies, limit) ==
  LET others == SelectSeq(MapValues(allCompanies), LAMBDA c :
                  c.slug # currentCompany.slug /\ CompanyScore(currentCompany, c) > 0)
      scored == [i \in DOMAIN others |->
                  [company |-> others[i], score |-> CompanyScore(currentCompany, others[i])]]
      top == Slice(SortByScore(scored), limit)
  IN [i \in DOMAIN top |->
       [href |-> getCanonicalUrl("company", top[i].company.slug),
        priority |-> IF getCompanyTier(top[i].company.slug) = 1 THEN 10 ELSE 8]]

\* the filter of line 100 without its test on relatedSlugs
PopularCandidatesAll(currentTopic, allTopics, relatedSlugs) ==
  SelectSeq(MapValues(allTopics), LAMBDA t : t.slug # currentTopic.slug)

\* line 100: the topics that are neither the current one nor in relatedSlugs
PopularCandidates(currentTopic, allTopics, relatedSlugs) ==
  SelectSeq(MapValues(allTopics), LAMBDA t :
    /\ t.slug # currentTopic.slug
    /\ ~ \E i \in DOMAIN relatedSlugs : relatedSlugs[i] = t.slug)

\* sort((a, b) => b.questionCount - a.questionCount)
SortByPopularity(topics) ==
  StableSort([i \in DOMAIN topics |->
    [key |-> <<0 - topics[i].questionCount>>, item |-> topics[i]]])

getRelatedTopics(currentTopic, allTopics, limit) ==
  LET relatedSlugs == UniqueValues(currentTopic.relatedTopics, <<>>)
      found == SelectSeq(relatedSlugs, LAMBDA slug : MapHas(allTopics, slug))
      explicit == [i \in DOMAIN found |->
                    [href |-> getCanonicalUrl("topic", MapGet(allTopics, found[i]).slug),
                     priority |-> 10]]
      popular == IF Len(explicit) < limit
                 THEN Slice(SortByPopularity(
                              PopularCandidates(currentTopic, allTopics, relatedSlugs)),
                            limit - Len(explicit))
                 ELSE <<>>
      links == explicit \o [i \in DOMAIN popular |->
                 [href |-> getCanonicalUrl("topic", popular[i].slug), priority |-> 7]]
  IN Slice(links, limit)

\* the score with the bonus of line 161 left out
ProblemScoreNoDifficulty(currentQuestion, question) ==
  LET topicOverlap == Len(SelectSeq(question.topics, LAMBDA t :
                        \E i \in DOMAIN currentQuestion.topics :
                          toLowerCase(currentQuestion.topics[i]) = toLowerCase(t)))
  IN topicOverlap * 5 + Min(Len(question.companies), 5)

\* lines 154-164: the score of one candidate question
ProblemScore(currentQuestion, question) ==
  LET topicOverlap == Len(SelectSeq(question.topics, LAMBDA t :
                        \E i \in DOMAIN currentQuestion.topics :
                          toLowerCase(currentQuestion.topics[i]) = toLowerCase(t)))
  IN topicOverlap * 5
     + (IF question.difficulty = currentQuestion.difficulty THEN 2 ELSE 0)
     + Min(Len(question.companies), 5)

getRelatedProblems(currentQuestion, allQuestions, limit) ==
  LET relatedSlugs == UniqueValues(currentQuestion.relatedQuestions, <<>>)
      found == SelectSeq(relatedSlugs, LAMBDA slug : MapHas(allQuestions, slug))
      explicit == [i \in DOMAIN found |->
                    [href |-> getCanonicalUrl("problem", MapGet(allQuestions, found[i]).slug),
                     priority |-> 10]]
      others == SelectSeq(MapValues(allQuestions), LAMBDA q :
                  /\ q.slug # currentQuestion.slug
                  /\ ~ \E i \in DOMAIN relatedSlugs : relatedSlugs[i] = q.slug
                  /\ ProblemScore(currentQuestion, q) > 0)
      scored == [i \in DOMAIN others |->
                  [question |-> others[i], score |-> ProblemScore(currentQuestion, others[i])]]
      additional == IF Len(explicit) < limit
                    THEN Slice(SortByScore(scored), limit - Len(explicit))
                    ELSE <<>>
      links == explicit \o [i \in DOMAIN additional |->
                 [href |-> getCanonicalUrl("problem", additional[i].question.slug),
                  priority |-> 8]]
  IN Slice(links, limit)

(***************************************************************************)
(* The cache machine.  JavaScript runs each piece of code between two      *)
(* awaits without interruption, so one action is one such piece: a call of *)
(* getBuildCache up to its first await or return, the continuation of a    *)
(* loader's await inside buildAggregatedData, the continuation of the      *)
(* await of line 46, the settling of a call that returned cachePromise.    *)
(***************************************************************************)
VARIABLES
  source,        \* the records that getQuestions() resolves with
  buildCache,    \* the module variable buildCache: NoCache (null) or a BuildCache
  cachePromise,  \* the module variable cachePromise: 0 (null) or the build whose promise it is
  builds,        \* the invocations of buildAggregatedData, in order
  calls,         \* the invocations of getBuildCache, in order
  rawInput,      \* the input of the aggregation run (specification AggSpec)
  output,        \* the result of the aggregation run (specification AggSpec)
  query,         \* the last call of an accessor or of a recommender
  answer         \* what that call returned

vars == <<source, buildCache, cachePromise, builds, calls, rawInput, output, query, answer>>

\* the value null of buildCache
NoCache == [ref |-> 0]
\* the aggregation has not run
NoOutput == [state |-> "none"]
\* no accessor or recommender has been called
NoQuery == [fn |-> "none", args |-> <<>>, n |-> 0]
NoAnswer == [kind |-> "none"]

\* the check of line 36 left out
CacheHitNever == FALSE

\* line 36: if (buildCache)
CacheHit == buildCache # NoCache

\* the check of line 41 left out
JoinsInFlightNever == FALSE

\* line 41: if (cachePromise)
JoinsInFlight == cachePromise # 0

\* the state of a build's promise: "pending", "resolved" or "rejected"
PromiseState(b) ==
  IF builds[b].pc \in {"resolved", "rejected"} THEN builds[b].pc ELSE "pending"

\* whether the call that started build b (and awaits it at line 46) has
\* continued after its await
StarterContinued(b) ==
  \E c \in DOMAIN calls :
    calls[c].path = "built" /\ calls[c].promise = b /\ calls[c].pc # "awaitBuild"

\* what a call finds in the two module variables when it is invoked: a
\* snapshot in buildCache ("cached"), else no promise ("none"), else the
\* promise in cachePromise: "pending", "resolved", "rejected" (rejected, and
\* the call that started the build has not yet continued) or "failed"
\* (rejected, and the call that started the build has itself rejected)
FoundPromise ==
  IF buildCache # NoCache THEN "cached"
  ELSE IF cachePromise = 0 THEN "none"
  ELSE IF PromiseState(cachePromise) = "rejected" /\ StarterContinued(cachePromise)
  THEN "failed"
  ELSE PromiseState(cachePromise)

\* buildAggregatedData() up to its first await: getQuestions() is pending
NewBuild ==
  [pc |-> "getQuestions", rawQuestions |-> <<>>, value |-> NoCache, error |-> "none"]

\* getBuildCache() is invoked and runs to its first await or return
getBuildCache ==
  /\ Len(calls) < MaxCalls
  /\ IF CacheHit
     THEN \* line 37: return buildCache
          /\ calls' = Append(calls, [pc |-> "resolved", path |-> "cached", promise |-> 0,
                                     found |-> FoundPromise, result |-> buildCache.ref,
                                     error |-> "none"])
          /\ UNCHANGED <<cachePromise, builds>>
     ELSE IF JoinsInFlight
     THEN \* line 42: return cachePromise
          /\ calls' = Append(calls, [pc |-> "returned", path |-> "joined",
                                     promise |-> cachePromise, found |-> FoundPromise,
                                     result |-> 0, error |-> "none"])
          /\ UNCHANGED <<cachePromise, builds>>
     ELSE \* lines 45-46: cachePromise = buildAggregatedData(); await cachePromise
          /\ builds' = Append(builds, NewBuild)
          /\ cachePromise' = Len(builds) + 1
          /\ calls' = Append(calls, [pc |-> "awaitBuild", path |-> "built",
                                     promise |-> Len(builds) + 1, found |-> FoundPromise,
                                     result |-> 0, error |-> "none"])
  /\ UNCHANGED <<source, buildCache, rawInput, output, query, answer>>

\* the promise of build b after the aggregation: fulfilled with the snapshot
\* object, or rejected with the TypeError that the aggregation throws
Aggregated(b, rawQuestions) ==
  IF AggregationThrows(rawQuestions, CompanyList, TopicList)
  THEN [builds[b] EXCEPT !.pc = "rejected", !.error = "TypeError"]
  ELSE [builds[b] EXCEPT !.pc = "resolved",
          !.value = [ref |-> b, data |-> AggregatedData(rawQuestions, CompanyList, TopicList)]]

\* the loader that build b awaits resolves: the build goes on to the next
\* await, and after getTopics() to the aggregation and its return
LoaderResolves(b) ==
  /\ builds[b].pc \in {"getQuestions", "getCompanies", "getTopics"}
  /\ builds' = [builds EXCEPT ![b] =
       CASE builds[b].pc = "getQuestions" ->
              [@ EXCEPT !.pc = "getCompanies", !.rawQuestions = source]
         [] builds[b].pc = "getCompanies" -> [@ EXCEPT !.pc = "getTopics"]
         [] builds[b].pc = "getTopics" -> Aggregated(b, builds[b].rawQuestions)]
  /\ UNCHANGED <<source, buildCache, cachePromise, calls, rawInput, output, query, answer>>

\* the loader that build b awaits fails: the await throws and the build's
\* promise rejects
LoaderFails(b) ==
  /\ builds[b].pc \in {"getQuestions", "getCompanies", "getTopics"}
  /\ builds' = [builds EXCEPT ![b] =
       [@ EXCEPT !.pc = "rejected", !.error = "SourceUnavailable"]]
  /\ UNCHANGED <<source, buildCache, cachePromise, calls, rawInput, output, query, answer>>

\* a failure of the build caught and replaced by an empty snapshot
CacheAfterAwaitSwallow(b) ==
  IF builds[b].pc = "resolved" THEN builds[b].value
  ELSE [ref |-> b, data |-> AggregatedData(<<>>, <<>>, <<>>)]

\* line 46: what buildCache holds after `buildCache = await cachePromise`
\* for build b: the awaited value, and when the await throws the assignment
\* does not happen
CacheAfterAwait(b) ==
  IF PromiseState(b) = "resolved" THEN builds[b].value ELSE buildCache

\* line 47 is not reached when the await of line 46 throws
PromiseAfterAwait(b) ==
  IF PromiseState(b) = "resolved" THEN 0 ELSE cachePromise

\* a rejection swallowed: the call resolves without a snapshot
SettledCallSwallow(call, b) ==
  [call EXCEPT !.pc = "resolved", !.result = builds[b].value.ref]

\* a rejection that reaches no caller: the call stays where it waits
SettledCallLost(call, b) ==
  IF PromiseState(b) = "resolved"
  THEN [call EXCEPT !.pc = "resolved", !.result = builds[b].value.ref]
  ELSE call

\* how a call that waits on build b ends once b's promise is settled
SettledCall(call, b) ==
  IF PromiseState(b) = "resolved"
  THEN [call EXCEPT !.pc = "resolved", !.result = builds[b].value.ref]
  ELSE [call EXCEPT !.pc = "rejected", !.error = builds[b].error]

\* lines 46-49: the call that started the build continues after its await
Resume(c) ==
  /\ calls[c].pc = "awaitBuild"
  /\ PromiseState(calls[c].promise) # "pending"
  /\ buildCache' = CacheAfterAwait(calls[c].promise)
  /\ cachePromise' = PromiseAfterAwait(calls[c].promise)
  /\ calls' = [calls EXCEPT ![c] = SettledCall(@, calls[c].promise)]
  /\ UNCHANGED <<source, builds, rawInput, output, query, answer>>

\* a call that returned cachePromise (line 42) settles as that promise does
Settle(c) ==
  /\ calls[c].pc = "returned"
  /\ PromiseState(calls[c].promise) # "pending"
  /\ calls' = [calls EXCEPT ![c] = SettledCall(@, calls[c].promise)]
  /\ UNCHANGED <<source, buildCache, cachePromise, builds, rawInput, output, query, answer>>

Init ==
  /\ source \in SeqsUpTo(RawRecords, MaxSourceRecords)
  /\ buildCache = NoCache
  /\ cachePromise = 0
  /\ builds = <<>>
  /\ calls = <<>>
  /\ rawInput = <<>>
  /\ output = NoOutput
  /\ query = NoQuery
  /\ answer = NoAnswer

Next ==
  \/ getBuildCache
  \/ \E b \in DOMAIN builds : LoaderResolves(b)
  \/ \E b \in DOMAIN builds : LoaderFails(b)
  \/ \E c \in DOMAIN calls : Resume(c)
  \/ \E c \in DOMAIN calls : Settle(c)

Spec == Init /\ [][Next]_vars

(***************************************************************************)
(* The aggregation alone, on every raw list of at most MaxRecords records. *)
(***************************************************************************)
\* the synchronous part of buildAggregatedData runs on rawInput
Aggregate ==
  /\ output = NoOutput
  /\ output' =
       IF AggregationThrows(rawInput, CompanyList, TopicList)
       THEN [state |-> "threw"]
       ELSE [state |-> "built", data |-> AggregatedData(rawInput, CompanyList, TopicList)]
  /\ UNCHANGED <<source, buildCache, cachePromise, builds, calls, rawInput, query, answer>>

\* the cache machine under its scheduling: every raw-data loader that a
\* build awaits settles at some time, and the continuation of an await on a
\* settled promise is run by the job queue.  Nothing obliges a caller to call.
LoadersSettle ==
  WF_vars(\E b \in DOMAIN builds : LoaderFails(b) \/ LoaderResolves(b))

ContinuationsRun ==
  WF_vars(\E c \in DOMAIN calls : Resume(c) \/ Settle(c))

FairSpec == Spec /\ LoadersSettle /\ ContinuationsRun

AggInit ==
  /\ rawInput \in SeqsUpTo(RawRecords, MaxRecords)
  /\ output = NoOutput
  /\ query = NoQuery
  /\ answer = NoAnswer
  /\ source = <<>>
  /\ buildCache = NoCache
  /\ cachePromise = 0
  /\ builds = <<>>
  /\ calls = <<>>

AggNext == Aggregate

AggSpec == AggInit /\ [][AggNext]_vars

(***************************************************************************)
(* The read accessors called on a resolved cache (specification ReadSpec): *)
(* the aggregation runs on rawInput, then accessors are called in any      *)
(* order.  Each accessor awaits getBuildCache(), which resolves with the   *)
(* cache, and then runs to its return without interruption.                *)
(***************************************************************************)
ReadRecords ==
  {Rec("two-sum", google, "Easy", <<TopicA>>, 80),
   Rec("lru-cache", google, "Easy", <<TopicA>>, 40),
   Rec("two-sum", acme, "Easy", <<TopicA>>, 40),
   Rec("two-sum", amazon, "Medium", <<TopicA, TopicB>>, 40),
   Rec("lru-cache", uber, "Hard", <<TopicA, TopicALower>>, 80),
   Rec("two-sum", uber, "Hard", <<TopicA, TopicALower>>, 40),
   Rec("lru-cache", uber, "Hard", <<TopicAB>>, 80)}

\* a slug that no record and no list has
nobody == <<"z">>

CompanySlugArgs == {google, uber, nobody}
TopicSlugArgs == {TopicALower, TopicABSlug, nobody}
QuestionSlugArgs == {"two-sum", "lru-cache", "no-such-question"}
Difficulties == {"Easy", "Medium", "Hard"}

\* an accessor returns value: the call is recorded with its number
Returns(fn, args, value) ==
  /\ output.state = "built"
  /\ query.n < MaxReads
  /\ query' = [fn |-> fn, args |-> args, n |-> query.n + 1]
  /\ answer' = value
  /\ output' = [output EXCEPT !.data = CacheAfterRead(@)]
  /\ UNCHANGED <<source, buildCache, cachePromise, builds, calls, rawInput>>

CallGetAggregatedCompanies ==
  Returns("getAggregatedCompanies", <<>>, getAggregatedCompanies(output.data))
CallGetAggregatedTopics ==
  Returns("getAggregatedTopics", <<>>, getAggregatedTopics(output.data))
CallGetStats ==
  Returns("getStats", <<>>, getStats(output.data))
CallGetCompanyBySlug ==
  \E slug \in CompanySlugArgs :
    Returns("getCompanyBySlug", <<slug>>, getCompanyBySlug(output.data, slug))
CallGetTopicBySlug ==
  \E slug \in TopicSlugArgs :
    Returns("getTopicBySlug", <<slug>>, getTopicBySlug(output.data, slug))
CallGetQuestionBySlug ==
  \E slug \in QuestionSlugArgs :
    Returns("getQuestionBySlug", <<slug>>, getQuestionBySlug(output.data, slug))
CallGetQuestionsByCompany ==
  \E slug \in CompanySlugArgs :
    Returns("getQuestionsByCompany", <<slug>>, getQuestionsByCompany(output.data, slug))
CallGetQuestionsByTopic ==
  \E slug \in TopicSlugArgs :
    Returns("getQuestionsByTopic", <<slug>>, getQuestionsByTopic(output.data, slug))
CallGetQuestionsByCompanyAndTopic ==
  \E companySlug \in CompanySlugArgs, topicSlug \in TopicSlugArgs :
    Returns("getQuestionsByCompanyAndTopic", <<companySlug, topicSlug>>,
            getQuestionsByCompanyAndTopic(output.data, companySlug, topicSlug))
CallGetCompanyTopicCrossRefs ==
  \E slug \in CompanySlugArgs :
    Returns("getCompanyTopicCrossRefs", <<slug>>, getCompanyTopicCrossRefs(output.data, slug))
CallGetTopicCompanyCrossRefs ==
  \E slug \in TopicSlugArgs :
    Returns("getTopicCompanyCrossRefs", <<slug>>, getTopicCompanyCrossRefs(output.data, slug))
CallGetQuestionCompanies ==
  \E slug \in QuestionSlugArgs :
    Returns("getQuestionCompanies", <<slug>>, getQuestionCompanies(output.data, slug))
CallGetTopCrossReferences ==
  \E limit \in 0..MaxLimit :
    Returns("getTopCrossReferences", <<limit>>, getTopCrossReferences(output.data, limit))
CallGetQuestionsByDifficulty ==
  \E difficulty \in Difficulties :
    Returns("getQuestionsByDifficulty", <<difficulty>>,
            getQuestionsByDifficulty(output.data, difficulty))

ReadInit ==
  /\ rawInput \in SeqsUpTo(ReadRecords, MaxReadRecords)
  /\ output = NoOutput
  /\ query = NoQuery
  /\ answer = NoAnswer
  /\ source = <<>>
  /\ buildCache = NoCache
  /\ cachePromise = 0
  /\ builds = <<>>
  /\ calls = <<>>

ReadNext ==
  \/ Aggregate
  \/ CallGetAggregatedCompanies
  \/ CallGetAggregatedTopics
  \/ CallGetStats
  \/ CallGetCompanyBySlug
  \/ CallGetTopicBySlug
  \/ CallGetQuestionBySlug
  \/ CallGetQuestionsByCompany
  \/ CallGetQuestionsByTopic
  \/ CallGetQuestionsByCompanyAndTopic
  \/ CallGetCompanyTopicCrossRefs
  \/ CallGetTopicCompanyCrossRefs
  \/ CallGetQuestionCompanies
  \/ CallGetTopCrossReferences
  \/ CallGetQuestionsByDifficulty

ReadSpec == ReadInit /\ [][ReadNext]_vars

(***************************************************************************)
(* The recommenders as functions of their arguments (specification         *)
(* LinkSpec): the current entity, the universe and the limit are drawn     *)
(* from bounded sets, and the recommender is applied to them.              *)
(***************************************************************************)
\* a Company with the fields that getRelatedCompanies reads
LinkCompany(slug, questionCount, topTopicSlugs) ==
  [slug |-> slug, questionCount |-> questionCount,
   topTopics |-> [i \in DOMAIN topTopicSlugs |-> [slug |-> topTopicSlugs[i]]]]

\* a Topic with the fields that getRelatedTopics reads
LinkTopic(slug, questionCount, relatedTopics) ==
  [slug |-> slug, questionCount |-> questionCount, relatedTopics |-> relatedTopics]

\* a UniqueQuestion with the fields that getRelatedProblems reads; the
\* companies list is given by its length
LinkQuestion(slug, difficulty, topics, companyCount, relatedQuestions) ==
  [slug |-> slug, difficulty |-> difficulty, topics |-> topics,
   companies |-> [i \in 1..companyCount |-> [company |-> google, frequency |-> 40]],
   relatedQuestions |-> relatedQuestions]

\* the Map of a list of entities, keyed by slug
MapOf(entities) == [i \in DOMAIN entities |-> [key |-> entities[i].slug, val |-> entities[i]]]

\* the lists of pairwise different slugs
DistinctSlugs(entities) ==
  \A i, j \in DOMAIN entities : i # j => entities[i].slug # entities[j].slug

TopicBLower == <<"b">>
TopicCLower == <<"c">>

CurrentCompanies == {LinkCompany(c, 100, <<TopicALower, TopicBLower>>) : c \in {google, uber}}
CandidateCompanies ==
  {LinkCompany(c, n, t) :
     c \in {amazon, uber, acme}, n \in {100, 160, 250},
     t \in {<<>>, <<TopicALower>>, <<TopicALower, TopicALower>>}}

\* the universes of a current company: itself between two candidates
CompanyUniverses(current) ==
  {u \in {<<x, current, y>> : x \in CandidateCompanies, y \in CandidateCompanies} :
     DistinctSlugs(u)}

CompanyQueries ==
  UNION {{[fn |-> "getRelatedCompanies", current |-> current, all |-> MapOf(u),
           limit |-> limit] :
            u \in CompanyUniverses(current), limit \in 0..MaxLimit} :
         current \in CurrentCompanies}

\* the current topic, with each shape of relatedTopics: empty, one slug, a
\* repeated slug, two slugs, a slug of no topic, its own slug, three slugs
CurrentTopics ==
  {LinkTopic(TopicALower, 5, r) :
     r \in {<<>>, <<TopicBLower>>, <<TopicBLower, TopicBLower>>,
             <<TopicCLower, TopicBLower>>, <<nobody>>, <<TopicALower>>,
             <<TopicBLower, TopicCLower, TopicABSlug>>}}

\* the other topics: each absent, or present with 1 or 2 questions
OtherTopics(slug) == {<<>>} \cup {<<LinkTopic(slug, n, <<>>)>> : n \in {1, 2}}

TopicUniverses(current) ==
  UNION {{b \o <<current>> \o c \o d, d \o c \o <<current>> \o b} :
           b \in OtherTopics(TopicBLower), c \in OtherTopics(TopicCLower),
           d \in OtherTopics(TopicABSlug)}

TopicQueries ==
  UNION {{[fn |-> "getRelatedTopics", current |-> current, all |-> MapOf(u),
           limit |-> limit] :
            u \in TopicUniverses(current), limit \in 0..MaxLimit} :
         current \in CurrentTopics}

\* the current question, with each shape of relatedQuestions
CurrentQuestions ==
  {LinkQuestion("two-sum", "Easy", <<TopicA>>, 1, r) :
     r \in {<<>>, <<"lru-cache">>, <<"no-such-question">>, <<"3sum", "lru-cache">>,
             <<"lru-cache", "lru-cache">>}}

CandidateQuestions(slug) ==
  {LinkQuestion(slug, d, t, n, <<>>) :
     d \in {"Easy", "Hard"}, n \in {0, 1, 6},
     t \in {<<>>, <<TopicALower>>, <<TopicA, TopicALower>>}}

ProblemQueries ==
  UNION {{[fn |-> "getRelatedProblems", current |-> current,
           all |-> MapOf(<<x, current, y>>), limit |-> limit] :
            x \in CandidateQuestions("lru-cache"), y \in CandidateQuestions("3sum"),
            limit \in 0..MaxLimit} :
         current \in CurrentQuestions}

\* a recommender is applied to the arguments of the query
CallGetRelatedCompanies ==
  /\ query.fn = "getRelatedCompanies"
  /\ answer = NoAnswer
  /\ answer' = [kind |-> "list",
                items |-> getRelatedCompanies(query.current, query.all, query.limit)]
  /\ UNCHANGED <<source, buildCache, cachePromise, builds, calls, rawInput, output, query>>

CallGetRelatedTopics ==
  /\ query.fn = "getRelatedTopics"
  /\ answer = NoAnswer
  /\ answer' = [kind |-> "list",
                items |-> getRelatedTopics(query.current, query.all, query.limit)]
  /\ UNCHANGED <<source, buildCache, cachePromise, builds, calls, rawInput, output, query>>

CallGetRelatedProblems ==
  /\ query.fn = "getRelatedProblems"
  /\ answer = NoAnswer
  /\ answer' = [kind |-> "list",
                items |-> getRelatedProblems(query.current, query.all, query.limit)]
  /\ UNCHANGED <<source, buildCache, cachePromise, builds, calls, rawInput, output, query>>

LinkInit ==
  /\ \/ query \in CompanyQueries
     \/ query \in TopicQueries
     \/ query \in ProblemQueries
  /\ answer = NoAnswer
  /\ rawInput = <<>>
  /\ output = NoOutput
  /\ source = <<>>
  /\ buildCache = NoCache
  /\ cachePromise = 0
  /\ builds = <<>>
  /\ calls = <<>>

LinkNext ==
  \/ CallGetRelatedCompanies
  \/ CallGetRelatedTopics
  \/ CallGetRelatedProblems

LinkSpec == LinkInit /\ [][LinkNext]_vars

(***************************************************************************)
(* Question deduplication on longer record lists (specification            *)
(* QuestionSpec): lists in which a question is asked several times by one  *)
(* company, and lists with more questions than a related-questions list    *)
(* keeps.                                                                  *)
(***************************************************************************)
MaxRepeatRecords == 4
MaxRankedRecords == 8

\* two questions, one asked twice by one company, the other by two companies
RepeatRecords ==
  {Rec("two-sum", google, "Easy", <<TopicA>>, 40),
   Rec("two-sum", google, "Easy", <<TopicA>>, 80),
   Rec("lru-cache", google, "Easy", <<TopicA>>, 40),
   Rec("lru-cache", acme, "Easy", <<TopicA>>, 40)}

SlugNames == <<"q01", "q02", "q03", "q04", "q05", "q06", "q07", "q08", "q09", "q10">>

LastSlugIndex(list) == Cardinality({list[i].slug : i \in DOMAIN list})

\* the records that may follow a list: a new question of the difficulty of
\* the first one, a new question of another difficulty, or one more record
\* of the last question, with the difficulty and the topic of the first one
FollowingRecords(list) ==
  {Rec(SlugNames[LastSlugIndex(list) + 1], google, "Easy", <<>>, 40),
   Rec(SlugNames[LastSlugIndex(list) + 1], google, "Hard", <<>>, 40),
   Rec(SlugNames[LastSlugIndex(list)], google, "Easy", <<TopicA>>, 40)}

\* the lists of n records that start with an Easy question of topic A
RECURSIVE RankedLists(_)
RankedLists(n) ==
  IF n = 1 THEN {<<Rec(SlugNames[1], google, "Easy", <<TopicA>>, 40)>>}
  ELSE UNION {{Append(list, r) : r \in FollowingRecords(list)} : list \in RankedLists(n - 1)}

QuestionInit ==
  /\ rawInput \in SeqsUpTo(RepeatRecords, MaxRepeatRecords)
                   \cup UNION {RankedLists(n) : n \in 1..MaxRankedRecords}
  /\ output = NoOutput
  /\ query = NoQuery
  /\ answer = NoAnswer
  /\ source = <<>>
  /\ buildCache = NoCache
  /\ cachePromise = 0
  /\ builds = <<>>
  /\ calls = <<>>

QuestionNext == Aggregate

QuestionSpec == QuestionInit /\ [][QuestionNext]_vars

(***************************************************************************)
(* The claims about the cache machine (specification Spec).                *)
(***************************************************************************)
\* the calls made before any build has completed
FirstCalls == {c \in DOMAIN calls : calls[c].found \in {"none", "pending"}}

\* C1: the callers that invoke getBuildCache before any build has completed
\* share one build: buildAggregatedData is invoked exactly once, every such
\* call waits on that build, and when the build succeeds all of them
\* resolve to the one snapshot reference that it produced.
C1_ConcurrentFirstCallsShareOneBuild ==
  FirstCalls # {} =>
    /\ Len(builds) = 1
    /\ \A c \in FirstCalls :
         /\ calls[c].promise = 1
         /\ calls[c].pc = "resolved" =>
              /\ PromiseState(1) = "resolved"
              /\ calls[c].result = builds[1].value.ref
              /\ calls[c].result # 0

C1_Witness ==
  /\ Len(calls) >= 3
  /\ FirstCalls = DOMAIN calls
  /\ \A c \in DOMAIN calls : calls[c].pc = "resolved"

\* C2 (the claim as stated): a getBuildCache invocation made after the
\* failed build has rejected (and the call that started it has rejected
\* too) starts a fresh build instead of returning the earlier failure.
C2_RetryAfterFailureStartsFreshBuild ==
  \A c \in DOMAIN calls : calls[c].found = "failed" => calls[c].path = "built"

\* C3: when the build fails (a loader fails, or the aggregation throws), no
\* call waiting on it resolves with a snapshot, every such call that has
\* settled rejected with the build's failure, and every such call that has
\* not settled yet can take the step that rejects it.
C3_FailurePropagatesToEveryWaiter ==
  \A c \in DOMAIN calls :
    (calls[c].promise # 0 /\ PromiseState(calls[c].promise) = "rejected") =>
      /\ calls[c].pc # "resolved"
      /\ calls[c].result = 0
      /\ calls[c].pc = "rejected" => calls[c].error = builds[calls[c].promise].error
      /\ calls[c].pc \in {"awaitBuild", "returned"} => ENABLED (Resume(c) \/ Settle(c))

C3_Witness ==
  /\ Len(calls) >= 3
  /\ \E b \in DOMAIN builds : builds[b].error = "SourceUnavailable"
  /\ \A c \in DOMAIN calls : calls[c].pc = "rejected" /\ calls[c].found \in {"none", "pending"}

\* the calls made once a build has completed successfully
LaterCalls == {c \in DOMAIN calls : calls[c].found \in {"cached", "resolved"}}

\* C4: once a build has completed successfully no further build is started,
\* and every call made from then on is served by that build's snapshot: it
\* starts no build, never rejects, and resolves to that snapshot reference.
C4_SnapshotMemoizedForever ==
  \A b \in DOMAIN builds : PromiseState(b) = "resolved" =>
    /\ Len(builds) = b
    /\ \A c \in LaterCalls :
         /\ calls[c].path # "built"
         /\ calls[c].pc # "rejected"
         /\ calls[c].pc = "resolved" => calls[c].result = builds[b].value.ref

C4_Witness ==
  /\ \E c \in LaterCalls : calls[c].path = "cached" /\ calls[c].pc = "resolved"
  /\ \E c \in LaterCalls : calls[c].path = "joined" /\ calls[c].pc = "resolved"

\* C5: at most one execution of buildAggregatedData is in flight.
C5_AtMostOneBuildInFlight ==
  Cardinality({b \in DOMAIN builds : PromiseState(b) = "pending"}) <= 1

C5_Witness ==
  /\ \E b \in DOMAIN builds : PromiseState(b) = "pending"
  /\ Len(calls) >= 3

\* C6: buildCache is null or the complete snapshot that a successfully
\* completed build returned for the source's records; during a build and
\* after a failed build it holds nothing else.
C6_CacheIsNullOrCompleteSnapshot ==
  \/ buildCache = NoCache
  \/ \E b \in DOMAIN builds :
       /\ PromiseState(b) = "resolved"
       /\ buildCache = builds[b].value
       /\ ~AggregationThrows(source, CompanyList, TopicList)
       /\ buildCache.data = AggregatedData(source, CompanyList, TopicList)
       /\ buildCache.data.stats.totalQuestionRecords = Len(source)

C6_Witness ==
  /\ buildCache # NoCache
  /\ source # <<>>

\* a record with a missing field or a difficulty outside Easy/Medium/Hard
Malformed(q) == q.difficulty \notin {"Easy", "Medium", "Hard"}

\* C7 (the claim as stated): if a raw record is missing a required field or
\* has an out-of-domain difficulty, the build aborts and no snapshot is
\* published.
C7_MalformedRecordAbortsBuild ==
  (\E i \in DOMAIN source : Malformed(source[i])) =>
    /\ buildCache = NoCache
    /\ \A b \in DOMAIN builds : PromiseState(b) # "resolved"

(***************************************************************************)
(* The claims about the aggregation (specification AggSpec).               *)
(***************************************************************************)
\* C8 (the claim as stated): for every raw record list and every Company of
\* the built company map, easy + medium + hard of its difficulty breakdown
\* equals its questionCount.
C8_BreakdownSumsToQuestionCount ==
  output.state = "built" =>
    \A i \in DOMAIN output.data.companies :
      LET company == output.data.companies[i].val
      IN company.difficultyBreakdown.easy + company.difficultyBreakdown.medium
           + company.difficultyBreakdown.hard = company.questionCount

\* the distinct slugs of the raw records
RawSlugs == {rawInput[i].slug : i \in DOMAIN rawInput}

\* C9: the keys of the unique-questions map are exactly the distinct slugs
\* of the raw records, one entry each, and stats.totalUniqueQuestions is
\* their number.
C9_UniqueQuestionKeysAreDistinctSlugs ==
  output.state = "built" =>
    /\ MapKeys(output.data.questions) = RawSlugs
    /\ Len(output.data.questions) = Cardinality(RawSlugs)
    /\ output.data.stats.totalUniqueQuestions = Cardinality(RawSlugs)

C9_Witness ==
  /\ output.state = "built"
  /\ Len(rawInput) = 3
  /\ Cardinality(RawSlugs) = 2

\* the raw records of a company whose topic list contains a topic, compared
\* without regard to case, each record once
RecordsWithTopic(companySlug, topicName) ==
  {i \in DOMAIN rawInput :
     /\ rawInput[i].company = companySlug
     /\ \E j \in DOMAIN rawInput[i].topics :
          toLowerCase(rawInput[i].topics[j]) = toLowerCase(topicName)}

\* C10 (the claim as stated): for every cross-reference of the index (in
\* the company view and in the topic view), questionCount is the number of
\* raw records of that company whose topic list contains that topic.
C10_CrossRefCountsRecords ==
  output.state = "built" =>
    \A view \in {output.data.crossRefs.companyTopics, output.data.crossRefs.topicCompanies} :
      \A i \in DOMAIN view : \A j \in DOMAIN view[i].val :
        LET crossRef == view[i].val[j]
        IN crossRef.questionCount =
             Cardinality(RecordsWithTopic(crossRef.companySlug, crossRef.topicName))


(***************************************************************************)
(* Claims on the recommenders applied to a built snapshot.                 *)
(***************************************************************************)
Limits == 0..MaxLimit

\* the targets of a list of links
Hrefs(links) == [i \in DOMAIN links |-> links[i].href]

\* no two positions of a list hold the same value
NoRepeat(list) == \A i, j \in DOMAIN list : i # j => list[i] # list[j]

\* the links neither point to the page they are shown on nor repeat a target
LinksAreProper(links, self) ==
  /\ NoRepeat(Hrefs(links))
  /\ \A k \in DOMAIN links : links[k].href # self

\* C12: for every company, topic and question of a built snapshot and every
\* limit, the links of getRelatedCompanies, getRelatedTopics and
\* getRelatedProblems never contain a link to the entity itself and never
\* contain two links with the same target.
C12_NoSelfLinkNoDuplicateLink ==
  output.state = "built" =>
    \A limit \in Limits :
      /\ \A i \in DOMAIN output.data.companies :
           LinksAreProper(
             getRelatedCompanies(output.data.companies[i].val, output.data.companies, limit),
             getCanonicalUrl("company", output.data.companies[i].val.slug))
      /\ \A i \in DOMAIN output.data.topics :
           LinksAreProper(
             getRelatedTopics(output.data.topics[i].val, output.data.topics, limit),
             getCanonicalUrl("topic", output.data.topics[i].val.slug))
      /\ \A i \in DOMAIN output.data.questions :
           LinksAreProper(
             getRelatedProblems(output.data.questions[i].val, output.data.questions, limit),
             getCanonicalUrl("problem", output.data.questions[i].val.slug))


(***************************************************************************)
(* Claims on the read accessors (specification ReadSpec).                  *)
(***************************************************************************)
\* the number of raw records of the company whose topic list has the topic
MatchingRecords(crossRef) ==
  Cardinality(RecordsWithTopic(crossRef.companySlug, crossRef.topicName))

\* C13: a (company, topic) pair with fewer than 3 matching raw records never
\* appears in the result of getTopCrossReferences(limit), for any limit, and
\* hence never in the cross-reference entries of the sitemap.
C13_ThinCrossRefsNeverListed ==
  /\ query.fn = "getTopCrossReferences" =>
       \A i \in DOMAIN answer.items : MatchingRecords(answer.items[i]) >= 3
  /\ output.state = "built" =>
       \A i \in DOMAIN sitemapCrossRefEntries(output.data) :
         MatchingRecords(sitemapCrossRefEntries(output.data)[i]) >= 3


\* a slug that no map of the snapshot has as a key
AbsentCompany(slug) ==
  slug \notin MapKeys(output.data.companies)
               \cup MapKeys(output.data.companyQuestions)
               \cup MapKeys(output.data.crossRefs.companyTopics)
AbsentTopic(slug) ==
  slug \notin MapKeys(output.data.topics)
               \cup MapKeys(output.data.topicQuestions)
               \cup MapKeys(output.data.crossRefs.topicCompanies)
AbsentQuestion(slug) ==
  slug \notin MapKeys(output.data.questions)
               \cup MapKeys(output.data.crossRefs.questionCompanies)

\* the answer is null, or is the empty list
IsNull(a) == a.kind = "null"
IsEmptyList(a) == a.kind = "list" /\ a.items = <<>>

\* C14: for a slug that is not present in the snapshot, getCompanyBySlug,
\* getTopicBySlug and getQuestionBySlug return null, and
\* getQuestionsByCompany, getQuestionsByTopic, getQuestionsByCompanyAndTopic,
\* getCompanyTopicCrossRefs, getTopicCompanyCrossRefs and
\* getQuestionCompanies return the empty list; none of them throws.
C14_UnknownSlugGivesNullOrEmpty ==
  /\ query.fn = "getCompanyBySlug" /\ AbsentCompany(query.args[1]) => IsNull(answer)
  /\ query.fn = "getTopicBySlug" /\ AbsentTopic(query.args[1]) => IsNull(answer)
  /\ query.fn = "getQuestionBySlug" /\ AbsentQuestion(query.args[1]) => IsNull(answer)
  /\ query.fn \in {"getQuestionsByCompany", "getCompanyTopicCrossRefs"}
       /\ AbsentCompany(query.args[1]) => IsEmptyList(answer)
  /\ query.fn \in {"getQuestionsByTopic", "getTopicCompanyCrossRefs"}
       /\ AbsentTopic(query.args[1]) => IsEmptyList(answer)
  /\ query.fn = "getQuestionCompanies" /\ AbsentQuestion(query.args[1])
       => IsEmptyList(answer)
  /\ query.fn = "getQuestionsByCompanyAndTopic"
       /\ (AbsentCompany(query.args[1]) \/ AbsentTopic(query.args[2]))
       => IsEmptyList(answer)

\* an unknown company was looked up, with a topic that the snapshot has, in
\* a snapshot that has companies
C14_Witness ==
  /\ query.fn = "getQuestionsByCompanyAndTopic"
  /\ AbsentCompany(query.args[1])
  /\ ~ AbsentTopic(query.args[2])
  /\ Len(output.data.companies) >= 2
  /\ IsEmptyList(answer)

RecordsOfSlug(slug) == {i \in DOMAIN rawInput : rawInput[i].slug = slug}

\* C16: every UniqueQuestion's companies list holds exactly one
\* company-frequency pair per raw record of its slug, and is sorted by
\* frequency descending.
C16_CompaniesListPerRecordSortedByFrequency ==
  output.state = "built" =>
    \A i \in DOMAIN output.data.questions :
      LET question == output.data.questions[i].val
          companies == question.companies
          records == RecordsOfSlug(question.slug)
      IN /\ Len(companies) = Cardinality(records)
         /\ \A r \in records :
              Cardinality({k \in DOMAIN companies :
                             /\ companies[k].company = rawInput[r].company
                             /\ companies[k].frequency = rawInput[r].frequency})
              = Cardinality({r2 \in records :
                               /\ rawInput[r2].company = rawInput[r].company
                               /\ rawInput[r2].frequency = rawInput[r].frequency})
         /\ \A k \in DOMAIN companies :
              k < Len(companies) => companies[k].frequency >= companies[k + 1].frequency

\* a question whose records come in increasing frequency, from two companies
C16_Witness ==
  /\ output.state = "built"
  /\ \E r, r2 \in DOMAIN rawInput :
       /\ r < r2
       /\ rawInput[r].slug = rawInput[r2].slug
       /\ rawInput[r].company # rawInput[r2].company
       /\ rawInput[r].frequency < rawInput[r2].frequency


\* the positions of the raw records whose topic list contains the name,
\* compared without regard to case
RecordsOfTopic(topicName) ==
  {i \in DOMAIN rawInput :
     \E j \in DOMAIN rawInput[i].topics :
       toLowerCase(rawInput[i].topics[j]) = toLowerCase(topicName)}

\* the key expected for each name of the topic list: the name in lower case
\* with a hyphen for the space
ExpectedTopicKey(topicName) ==
  CASE topicName = TopicA -> <<"a">>
    [] topicName = TopicB -> <<"b">>
    [] topicName = TopicAB -> <<"a", "-", "b">>

\* C17: for every name of the canonical topic list, the Topic entry is keyed
\* by the lowercased name with whitespace replaced by hyphens and its
\* questionCount is the number of raw records whose topic list contains the
\* name compared case-insensitively; a topic with no such record has no entry.
C17_TopicCountsRecordsCaseInsensitively ==
  output.state = "built" =>
    /\ \A t \in DOMAIN TopicList :
         LET topicName == TopicList[t]
             key == ExpectedTopicKey(topicName)
         IN IF RecordsOfTopic(topicName) = {}
            THEN ~ MapHas(output.data.topics, key)
            ELSE /\ MapHas(output.data.topics, key)
                 /\ MapGet(output.data.topics, key).name = topicName
                 /\ MapGet(output.data.topics, key).slug = key
                 /\ MapGet(output.data.topics, key).questionCount
                      = Cardinality(RecordsOfTopic(topicName))
    /\ MapKeys(output.data.topics)
         \subseteq {ExpectedTopicKey(TopicList[t]) : t \in DOMAIN TopicList}

\* a topic with a space in its name has records, a topic counts two records
\* of which one spells it in another case, and a topic has no record
C17_Witness ==
  /\ output.state = "built"
  /\ RecordsOfTopic(TopicAB) # {}
  /\ Cardinality(RecordsOfTopic(TopicA)) = 2
  /\ \E i \in RecordsOfTopic(TopicA) :
       \A j \in DOMAIN rawInput[i].topics : rawInput[i].topics[j] # TopicA
  /\ RecordsOfTopic(TopicB) = {}


(***************************************************************************)
(* Claims on the recommenders as functions (specification LinkSpec).       *)
(***************************************************************************)
\* the recommender fn has been applied to the query
Answered(fn) == query.fn = fn /\ answer # NoAnswer

\* the entities of the universe of the query
Universe == {query.all[i].val : i \in DOMAIN query.all}

\* the entity of the universe that a link points to
TargetOf(link) == CHOOSE x \in Universe : x.slug = link.href.slug

\* the score that the claim gives a candidate company: 10 for each of its
\* top topics whose slug is a top-topic slug of the current company, 5 for
\* the same tier, 3 for a numerically lower tier, 3 for a question-count
\* difference under 50, 1 for a difference under 100
RelatedCompanyScore(company) ==
  LET currentSlugs == {query.current.topTopics[i].slug : i \in DOMAIN query.current.topTopics}
      diff == IF company.questionCount >= query.current.questionCount
              THEN company.questionCount - query.current.questionCount
              ELSE query.current.questionCount - company.questionCount
  IN 10 * Cardinality({i \in DOMAIN company.topTopics :
                         company.topTopics[i].slug \in currentSlugs})
     + (IF getCompanyTier(company.slug) = getCompanyTier(query.current.slug) THEN 5 ELSE 0)
     + (IF getCompanyTier(company.slug) < getCompanyTier(query.current.slug) THEN 3 ELSE 0)
     + (IF diff < 50 THEN 3 ELSE 0)
     + (IF diff < 100 THEN 1 ELSE 0)

\* the other companies with a positive score
RelatedCompanyCandidates ==
  {c \in Universe : c.slug # query.current.slug /\ RelatedCompanyScore(c) > 0}

ExistingIn(list) ==
  {list[p] : p \in {p \in DOMAIN list : \E x \in Universe : x.slug = list[p]}}

\* the first position of a slug in a list that has it
FirstPosition(list, slug) ==
  CHOOSE p \in DOMAIN list : list[p] = slug /\ \A p2 \in 1..(p - 1) : list[p2] # slug

\* C19: getRelatedTopics returns at most limit links: first the topics of
\* relatedTopics that exist in the universe, in list order, with priority 1;
\* then, only if these are fewer than limit, the most popular remaining
\* topics by question count descending (not the topic itself, not already
\* included), with priority 0.7; every explicit link precedes every
\* popularity link.
C19_RelatedTopicsExplicitThenPopular ==
  Answered("getRelatedTopics") =>
    LET links == answer.items
        related == query.current.relatedTopics
        existing == ExistingIn(related)
        e == Min(query.limit, Cardinality(existing))
        eligible == {t \in Universe :
                       t.slug # query.current.slug /\ t.slug \notin existing}
        n == Min(query.limit - e, Cardinality(eligible))
    IN /\ Len(links) = e + n
       /\ Len(links) <= query.limit
       /\ \A k \in 1..e :
            /\ links[k].priority = 10
            /\ links[k].href.prefix = "/topic/"
            /\ links[k].href.slug \in existing
            /\ k < e => FirstPosition(related, links[k].href.slug)
                          < FirstPosition(related, links[k + 1].href.slug)
            /\ \A slug \in existing :
                 (\A j \in 1..e : links[j].href.slug # slug)
                   => FirstPosition(related, links[k].href.slug)
                        < FirstPosition(related, slug)
       /\ \A k \in (e + 1)..Len(links) :
            /\ links[k].priority = 7
            /\ links[k].href.prefix = "/topic/"
            /\ \E t \in eligible : t.slug = links[k].href.slug
            /\ \A j \in (e + 1)..Len(links) :
                 j # k => links[j].href.slug # links[k].href.slug
            /\ k < Len(links) =>
                 TargetOf(links[k]).questionCount >= TargetOf(links[k + 1]).questionCount
            /\ \A t \in eligible :
                 (\A j \in DOMAIN links : links[j].href.slug # t.slug)
                   => t.questionCount <= TargetOf(links[k]).questionCount

\* relatedTopics has two entries and gave one explicit link (the other entry
\* repeats it or names no topic), a popularity link follows it, and a less
\* popular topic was left out
C19_Witness ==
  /\ Answered("getRelatedTopics")
  /\ Len(answer.items) = 2
  /\ answer.items[1].priority = 10
  /\ answer.items[2].priority = 7
  /\ Len(query.current.relatedTopics) = 2
  /\ \E t \in Universe :
       /\ t.slug \notin {query.current.slug, answer.items[1].href.slug,
                          answer.items[2].href.slug}
       /\ t.questionCount < TargetOf(answer.items[2]).questionCount


\* the score that the claim gives a candidate question: 5 for each of its
\* topics that the current question has (compared in lower case), 2 for the
\* same difficulty, and its number of companies up to 5
RelatedProblemScore(question) ==
  LET currentTopics == {toLowerCase(query.current.topics[i]) :
                          i \in DOMAIN query.current.topics}
      companyCount == Len(question.companies)
  IN 5 * Cardinality({i \in DOMAIN question.topics :
                        toLowerCase(question.topics[i]) \in currentTopics})
     + (IF question.difficulty = query.current.difficulty THEN 2 ELSE 0)
     + (IF companyCount > 5 THEN 5 ELSE companyCount)

RecordsUnderTopic(slug, topicSlug) ==
  {i \in DOMAIN rawInput :
     /\ rawInput[i].slug = slug
     /\ \E j \in DOMAIN rawInput[i].topics : TopicSlugOf(rawInput[i].topics[j]) = topicSlug}

\* C21: for every topic slug, the topic question listing is sorted by
\* frequency descending, contains each question slug at most once, and the
\* entry kept for a slug has the highest frequency among all records of that
\* slug under that topic.
C21_TopicListingSortedDedupedKeepsHighest ==
  output.state = "built" =>
    \A t \in DOMAIN output.data.topicQuestions :
      LET topicSlug == output.data.topicQuestions[t].key
          listing == output.data.topicQuestions[t].val
      IN /\ \A k \in DOMAIN listing :
              /\ k < Len(listing) => listing[k].frequency >= listing[k + 1].frequency
              /\ \A j \in DOMAIN listing : j # k => listing[j].slug # listing[k].slug
              /\ RecordsUnderTopic(listing[k].slug, topicSlug) # {}
              /\ \A i \in RecordsUnderTopic(listing[k].slug, topicSlug) :
                   rawInput[i].frequency <= listing[k].frequency
              /\ \E i \in RecordsUnderTopic(listing[k].slug, topicSlug) :
                   rawInput[i].frequency = listing[k].frequency
         /\ \A i \in DOMAIN rawInput :
              RecordsUnderTopic(rawInput[i].slug, topicSlug) # {}
                => \E k \in DOMAIN listing : listing[k].slug = rawInput[i].slug

\* a question has, under one topic, a record of lower frequency before a
\* record of higher frequency, and another question is listed with it
C21_Witness ==
  /\ output.state = "built"
  /\ \E i, j \in DOMAIN rawInput :
       /\ i < j
       /\ rawInput[i].slug = rawInput[j].slug
       /\ rawInput[i].frequency < rawInput[j].frequency
       /\ rawInput[i].topics = <<TopicA>>
       /\ rawInput[j].topics = <<TopicA>>
  /\ \E t \in DOMAIN output.data.topicQuestions :
       Len(output.data.topicQuestions[t].val) = 2

\* the tier of each company of the company list: 1 for google and amazon, 2
\* for uber, and 3 for acme, which the tier table does not have
ExpectedTier(slug) ==
  CASE slug = google -> 1
    [] slug = amazon -> 1
    [] slug = uber -> 2
    [] slug = acme -> 3

\* the positions of the raw records of a company
RecordsOfCompany(companySlug) == {i \in DOMAIN rawInput : rawInput[i].company = companySlug}

\* C22: the company map iterates by tier ascending (tier 3 for a company
\* that the tier table does not have) and within one tier by questionCount
\* descending; a company with no record is not in the map.
C22_CompanyMapOrderedByTierThenCount ==
  output.state = "built" =>
    LET companies == output.data.companies
    IN /\ \A i, j \in DOMAIN companies :
            i < j =>
              \/ ExpectedTier(companies[i].key) < ExpectedTier(companies[j].key)
              \/ /\ ExpectedTier(companies[i].key) = ExpectedTier(companies[j].key)
                 /\ companies[i].val.questionCount >= companies[j].val.questionCount
       /\ \A c \in DOMAIN CompanyList :
            MapHas(companies, CompanyList[c]) <=> RecordsOfCompany(CompanyList[c]) # {}
       /\ \A i \in DOMAIN companies :
            companies[i].val.questionCount = Cardinality(RecordsOfCompany(companies[i].key))

\* two companies of tier 1 are in the map, the one that the company list
\* names later first because it has more records, and a company has none
C22_Witness ==
  /\ output.state = "built"
  /\ Len(output.data.companies) = 2
  /\ output.data.companies[1].key = google
  /\ output.data.companies[1].val.questionCount = 2
  /\ output.data.companies[2].key = amazon

\* every cross-reference of the lists of a view, as a set
CrossRefsOf(view) == UNION {{view[i].val[j] : j \in DOMAIN view[i].val} : i \in DOMAIN view}

\* C23 (the claim as stated): the list of every company holds at most one
\* cross-reference per topicSlug, the list of every topic holds at most one
\* per companySlug, and the two views hold the same cross-references.
C23_CrossRefKeyedByCompanyAndTopicSlug ==
  output.state = "built" =>
    LET companyTopics == output.data.crossRefs.companyTopics
        topicCompanies == output.data.crossRefs.topicCompanies
    IN /\ \A c \in DOMAIN companyTopics : \A i, j \in DOMAIN companyTopics[c].val :
            i # j => companyTopics[c].val[i].topicSlug # companyTopics[c].val[j].topicSlug
       /\ \A t \in DOMAIN topicCompanies : \A i, j \in DOMAIN topicCompanies[t].val :
            i # j => topicCompanies[t].val[i].companySlug # topicCompanies[t].val[j].companySlug
       /\ CrossRefsOf(companyTopics) = CrossRefsOf(topicCompanies)

\* C24: every list that getCompanyTopicCrossRefs and getTopicCompanyCrossRefs
\* return is in non-increasing questionCount order.
C24_CrossRefListsSortedByQuestionCount ==
  query.fn \in {"getCompanyTopicCrossRefs", "getTopicCompanyCrossRefs"} =>
    /\ answer.kind = "list"
    /\ \A i, j \in DOMAIN answer.items :
         i < j => answer.items[i].questionCount >= answer.items[j].questionCount

\* a company's list was returned with its second bucket first: the topic of
\* the later record has the larger count
C24_Witness ==
  /\ query.fn = "getCompanyTopicCrossRefs"
  /\ Len(rawInput) = 2
  /\ rawInput[1].topics = <<TopicAB>>
  /\ answer.kind = "list"
  /\ Len(answer.items) = 2
  /\ answer.items[1].topicSlug = TopicALower
  /\ answer.items[1].questionCount > answer.items[2].questionCount

\* the position of the first raw record of a slug
FirstRecordOf(slug) == CHOOSE i \in RecordsOfSlug(slug) : \A j \in RecordsOfSlug(slug) : i <= j

\* C25: the id, title, difficulty, topics, acceptance rate, premium flag and
\* link of every UniqueQuestion are those of the first raw record of its
\* slug; the later records of the slug add to its companies list only, also
\* when they disagree with the first on those fields.
C25_RepresentativeIsFirstRecord ==
  output.state = "built" =>
    LET questions == output.data.questions
    IN /\ \A slug \in RawSlugs : MapHas(questions, slug)
       /\ \A i \in DOMAIN questions :
            LET unique == questions[i].val
                first == rawInput[FirstRecordOf(questions[i].key)]
            IN /\ unique.slug = questions[i].key
               /\ unique.id = first.id
               /\ unique.title = first.title
               /\ unique.difficulty = first.difficulty
               /\ unique.topics = first.topics
               /\ unique.acceptanceRate = first.acceptance_rate
               /\ unique.isPremium = (first.IsPremium = "Y")
               /\ unique.leetcodeUrl = first.link
               /\ Len(unique.companies) = Cardinality(RecordsOfSlug(unique.slug))

\* a later record of a slug disagrees with the first on every field, and
\* the question has both in its companies list
C25_Witness ==
  /\ output.state = "built"
  /\ \E i, j \in DOMAIN rawInput :
       /\ i < j
       /\ i = FirstRecordOf(rawInput[j].slug)
       /\ rawInput[i].id # rawInput[j].id
       /\ rawInput[i].title # rawInput[j].title
       /\ rawInput[i].difficulty # rawInput[j].difficulty
       /\ rawInput[i].topics # rawInput[j].topics
       /\ rawInput[i].acceptance_rate # rawInput[j].acceptance_rate
       /\ rawInput[i].IsPremium # rawInput[j].IsPremium
       /\ rawInput[i].link # rawInput[j].link
       /\ Len(MapGet(output.data.questions, rawInput[j].slug).companies) >= 2

\* the companies that have a raw record of a slug
CompaniesAsking(slug) == {rawInput[i].company : i \in RecordsOfSlug(slug)}

\* C26 (the claim as stated): the unique-questions map iterates by the
\* number of distinct companies asking the question, descending.
C26_QuestionsByDistinctCompanies ==
  output.state = "built" =>
    \A i, j \in DOMAIN output.data.questions :
      i < j => Cardinality(CompaniesAsking(output.data.questions[i].key))
                 >= Cardinality(CompaniesAsking(output.data.questions[j].key))

\* the score of the question other for the question target, both as the
\* unique-questions map has them: 1 for the same difficulty plus 2 per entry
\* of other's topics that target has (case-insensitive)
RelatedQuestionScore(other, target) ==
  (IF other.difficulty = target.difficulty THEN 1 ELSE 0)
  + 2 * Cardinality({i \in DOMAIN other.topics :
                       \E j \in DOMAIN target.topics :
                         toLowerCase(target.topics[j]) = toLowerCase(other.topics[i])})

\* C27 (the claim as stated): relatedQuestions of every UniqueQuestion has
\* at most 5 slugs, not its own slug and no slug twice, and no other
\* question that it leaves out has a strictly higher score than one it keeps.
C27_RelatedQuestionsTopFiveByScore ==
  output.state = "built" =>
    LET questions == output.data.questions
    IN \A t \in DOMAIN questions :
         LET target == questions[t].val
             related == target.relatedQuestions
             kept == {related[i] : i \in DOMAIN related}
         IN /\ Len(related) <= 5
            /\ target.slug \notin kept
            /\ NoRepeat(related)
            /\ \A o \in DOMAIN questions :
                 questions[o].key \notin kept \cup {target.slug} =>
                   \A k \in kept :
                     RelatedQuestionScore(questions[o].val, target)
                       <= RelatedQuestionScore(MapGet(questions, k), target)

\* the number of times that a topic of the slug otherSlug appears in the raw
\* records whose topic list has the topic targetName (case-insensitive)
CooccurrenceCount(otherSlug, targetName) ==
  Cardinality(UNION {{<<i, j>> : j \in {k \in DOMAIN rawInput[i].topics :
                                            TopicSlugOf(rawInput[i].topics[k]) = otherSlug}} :
                       i \in {r \in DOMAIN rawInput :
                                \E k \in DOMAIN rawInput[r].topics :
                                  toLowerCase(rawInput[r].topics[k]) = toLowerCase(targetName)}})

\* C28 (the claim as stated): relatedTopics of every Topic holds at most 5
\* slugs of other topics, in non-increasing order of their co-occurrence
\* count with the topic, and never the topic's own slug.
C28_RelatedTopicsByCooccurrence ==
  output.state = "built" =>
    \A t \in DOMAIN output.data.topics :
      LET topic == output.data.topics[t].val
          related == topic.relatedTopics
      IN /\ Len(related) <= 5
         /\ \A i \in DOMAIN related : related[i] # topic.slug
         /\ \A i, j \in DOMAIN related :
              i < j => CooccurrenceCount(related[i], topic.name)
                         >= CooccurrenceCount(related[j], topic.name)

\* C29 (the claim as stated): for every cross-reference of a built snapshot
\* getQuestionsByCompanyAndTopic returns as many questions as its
\* questionCount, and no company+topic page built ahead is thin.
C29_CrossRefCountAgreesWithPage ==
  output.state = "built" =>
    /\ \A crossRef \in CrossRefsOf(output.data.crossRefs.companyTopics) :
         Len(getQuestionsByCompanyAndTopic(output.data, crossRef.companySlug,
                                           crossRef.topicSlug).items)
           = crossRef.questionCount
    /\ \A p \in DOMAIN generateStaticParams(output.data) :
         ~ CompanyTopicPageIsThin(output.data, generateStaticParams(output.data)[p].company,
                                  generateStaticParams(output.data)[p].topic)

(***************************************************************************)
(* Termination of the cache machine (specification FairSpec).              *)
(***************************************************************************)
CallSettled(c) == calls[c].pc \in {"resolved", "rejected"}

BuildSettled(b) == builds[b].pc \in {"resolved", "rejected"}

\* every build started so far and every call made so far has settled
AllSettled ==
  /\ \A b \in DOMAIN builds : BuildSettled(b)
  /\ \A c \in DOMAIN calls : CallSettled(c)

\* C30: a build that has started comes to its completion or its failure,
\* and every call of getBuildCache settles at some time (it resolves with a
\* snapshot or it rejects), whatever the number of callers and the order
\* of their steps, provided that the raw-data loaders settle.  A settled
\* build or call stays settled, so this is: again and again, all that has
\* been started has settled.
C30_EveryCallSettles == []<>AllSettled

\* three callers of one build have settled: the one that started it and two
\* that joined it while it was pending
C30_Witness ==
  /\ Len(calls) = 3
  /\ Len(builds) = 1
  /\ \A c \in DOMAIN calls : CallSettled(c)
  /\ calls[1].path = "built"
  /\ calls[2].path = "joined" /\ calls[2].found = "pending"
  /\ calls[3].path = "joined" /\ calls[3].found = "pending"

=============================================================================
